---- MODULE Spec2Model ----
(***************************************************************************)
(* Model of src/core/synchronization/opencv.rs: the OpenCV-backed          *)
(* estimator item (feature detection, optical-flow matching with           *)
(* filtering, pose estimation with the inlier floor, matrix conversion).   *)
(*                                                                         *)
(* The vision library is the environment: every library call either        *)
(* returns Err or returns Ok with an output the model draws from a         *)
(* bounded set.  A library call that is handed a raster view reaching      *)
(* outside its pixel buffer reads memory it does not own; its outcomes     *)
(* are then Err, Ok with any output, or the death of the process.          *)
(*                                                                         *)
(* f32 coordinates are modelled by integers (whole-pixel values) plus NaN. *)
(***************************************************************************)
EXTENDS Integers, Sequences, FiniteSets, TLC

VARIABLES items, cleaned, res

vars == <<items, cleaned, res>>

----------------------------------------------------------------------------
(* Bounds *)

\* largest width / height argument (besides u32::MAX)
MaxSize == 2
\* side of the larger image buffer
MaxImg == 2
\* largest point coordinate in the matching inputs
MaxCoord == 1
\* longest feature list in the matching inputs
MaxLen == 2
\* longest feature list in the pose inputs
MaxPoints == 21
\* most corners a frame can hold in the detection inputs
MaxCandidates == 201
\* largest matrix side handed to cv_to_rot2
MaxDim == 4

----------------------------------------------------------------------------
(* Program constants *)

MAX_CORNERS == 200
MIN_INLIERS == 20
CV_8UC1 == 0
CV_64FC1 == 6
I32_MAX == 2147483647
F32_EXACT == 16777216

ItemIds == {"a", "b"}

\* An EstimatorItem of another variant, usable only as the `next` argument.
OtherVariant == "other"

----------------------------------------------------------------------------
(* Values *)

None == <<>>
Some(x) == <<x>>

\* f32 NaN, encoded by a number no coordinate takes: every ordered
\* comparison with it is false.
NaN == -1000000

\* An f32 that came from an integer: the value sig * ulp, sig below 2^24 or
\* equal to it after a carry. Kept as a pair, since i32::MAX as f32 is 2^31.
F32(sig, ulp) == [sig |-> sig, ulp |-> ulp]

\* x >= c for a coordinate x and a literal c.
F32Ge(x, c) == x # NaN /\ c # NaN /\ x >= c

\* x < f for a coordinate x and a converted integer f: x < sig * ulp
\* exactly when floor(x / ulp) < sig.
F32Lt(x, f) == x # NaN /\ (x \div f.ulp) < f.sig

\* A u32 is hi * 2^31 + lo, hi in {0, 1}, lo in 0 .. 2^31 - 1.
U32(hi, lo) == [hi |-> hi, lo |-> lo]

\* `x as i32` on a u32: the same 32 bits read as two's complement.
AsI32(u) == IF u.hi = 1 THEN (u.lo - I32_MAX) - 1 ELSE u.lo

\* The spacing of f32 values around n >= 0: 1 below 2^24, 2 from 2^24 up to
\* 2^25, 4 from 2^25 up to 2^26, and so on.
RECURSIVE F32Ulp(_, _)
F32Ulp(n, ulp) == IF n < F32_EXACT THEN ulp ELSE F32Ulp(n \div 2, 2 * ulp)

\* `x as f32` on a positive i32: the nearest value with a 24-bit
\* significand, ties to the even significand.
AsF32(n) ==
    LET ulp == F32Ulp(n, 1)
        q == n \div ulp
        r == n % ulp
    IN  IF 2 * r > ulp \/ (2 * r = ulp /\ q % 2 = 1)
        THEN F32(q + 1, ulp) ELSE F32(q, ulp)

\* image::GrayImage; the pixel values play no part in the item's logic.
Image(w, h) == [width |-> w, height |-> h]

\* image::GrayImage::default()
EmptyImage == Image(0, 0)

\* Number of bytes in the image's buffer (as_raw().len()).
RawLen(img) == img.width * img.height

\* ImageBuffer derefs to its sample slice; is_empty() is the slice's.
IsEmpty(img) == RawLen(img) = 0

\* #[derive(Default)] on ItemOpenCV
DefaultItem == [features |-> <<>>, img |-> EmptyImage, size |-> <<0, 0>>]

\* Bytes a rows x cols CV_8UC1 view with the given row step spans.
ViewBytes(w, h, step) == IF w <= 0 \/ h <= 0 THEN 0 ELSE (h - 1) * step + w

\* Mat::new_size_with_data: the view built over an image buffer.
View(w, h, step, img) ==
    [cols |-> w, rows |-> h, step |-> step,
     bytes |-> ViewBytes(w, h, step), buffer |-> RawLen(img)]

InsideBuffer(view) == view.bytes <= view.buffer

Min(x, y) == IF x <= y THEN x ELSE y

\* Outcomes of a library call.
Err == [kind |-> "Err", val |-> <<>>]
Ok(v) == [kind |-> "Ok", val |-> v]
Crash == [kind |-> "Crash", val |-> <<>>]

Idle == [op |-> "init", status |-> "returned", self |-> "-", next |-> "-",
         out |-> None, lib |-> <<>>, views |-> <<>>, undistorted |-> FALSE]

Alive == res.status = "returned"

\* No call made yet.
Fresh == res.op = "init"

----------------------------------------------------------------------------
(* get_features *)

get_features(self) == self.features

GetFeatures(s) ==
    /\ Alive
    /\ res' = [Idle EXCEPT !.op = "get_features", !.self = s,
                           !.out = get_features(items[s])]
    /\ UNCHANGED <<items, cleaned>>

----------------------------------------------------------------------------
(* cleanup *)

\* cleanup that keeps the image.
cleanup_KeepsImage(self) == self

\* cleanup that releases the features with the image.
cleanup_DropsFeatures(self) == [self EXCEPT !.img = EmptyImage, !.features = <<>>]

cleanup(self) == [self EXCEPT !.img = EmptyImage]

Cleanup(s) ==
    /\ Alive
    /\ items' = [items EXCEPT ![s] = cleanup(items[s])]
    /\ cleaned' = [cleaned EXCEPT ![s] = TRUE]
    /\ res' = [Idle EXCEPT !.op = "cleanup", !.self = s]

----------------------------------------------------------------------------
(* detect_features *)

\* good_features_to_track: the strongest corners first, at most max_corners.
good_features_to_track(corners, max_corners) ==
    SubSeq(corners, 1, Min(Len(corners), max_corners))

\* The corners the detector hands back for the call of line 87.
DetectedCorners(corners) == good_features_to_track(corners, MAX_CORNERS)

\* lib.inp: outcome of Mat::new_size_with_data;
\* lib.detect: outcome of the detector, Ok carrying the frame's corners.
detect_features(img, width, height, lib) ==
    LET w == AsI32(width)
        h == AsI32(height)
        inp == View(w, h, img.width, img)
        called == lib.inp.kind = "Ok"
        crashed == called /\ lib.detect.kind = "Crash"
        pts == IF called /\ lib.detect.kind = "Ok"
               THEN DetectedCorners(lib.detect.val) ELSE <<>>
    IN  [status |-> IF crashed THEN "crashed" ELSE "returned",
         views |-> IF called THEN <<inp>> ELSE <<>>,
         item |-> [features |-> [i \in 1..Len(pts) |-> pts[i]],
                   size |-> <<w, h>>,
                   img |-> img]]

\* A library call may only kill the process when its view leaves the buffer.
DetectLibOk(img, width, height, lib) ==
    lib.detect.kind = "Crash" =>
        ~InsideBuffer(View(AsI32(width), AsI32(height), img.width, img))

DetectFeatures(s, img, width, height, lib) ==
    /\ Alive
    /\ DetectLibOk(img, width, height, lib)
    /\ LET r == detect_features(img, width, height, lib)
       IN  /\ res' = [Idle EXCEPT !.op = "detect_features", !.self = s,
                         !.status = r.status, !.views = r.views,
                         !.lib = [img |-> img, width |-> width,
                                  height |-> height, inp |-> lib.inp.kind,
                                  detect |-> IF lib.inp.kind = "Ok"
                                             THEN lib.detect ELSE Err]]
           /\ IF r.status = "returned"
              THEN /\ items' = [items EXCEPT ![s] = r.item]
                   /\ cleaned' = [cleaned EXCEPT ![s] = FALSE]
              ELSE UNCHANGED <<items, cleaned>>

----------------------------------------------------------------------------
(* get_matched_features / optical_flow_to *)

X(pt) == pt[1]
Y(pt) == pt[2]

\* The test of lines 126-127 without the tracked point's upper bounds.
KeepPair_NoUpperBound(pt1, pt2, w, h) ==
    /\ F32Ge(X(pt1), 0) /\ F32Lt(X(pt1), AsF32(w))
    /\ F32Ge(Y(pt1), 0) /\ F32Lt(Y(pt1), AsF32(h))
    /\ F32Ge(X(pt2), 0)
    /\ F32Ge(Y(pt2), 0)

\* Lines 126-127: both points inside [0, w) x [0, h), compared as f32.
KeepPair(pt1, pt2, w, h) ==
    /\ F32Ge(X(pt1), 0) /\ F32Lt(X(pt1), AsF32(w))
    /\ F32Ge(Y(pt1), 0) /\ F32Lt(Y(pt1), AsF32(h))
    /\ F32Ge(X(pt2), 0) /\ F32Lt(X(pt2), AsF32(w))
    /\ F32Ge(Y(pt2), 0) /\ F32Lt(Y(pt2), AsF32(h))

\* Line 123: the tracker's flag for point i says "found".
Tracked(status, i) == status[i] = 1

\* Lines 122-132: the loop over status.rows(), from index i on; Mat::at
\* fails (and `?` leaves the closure) on an index past the matrix's end.
RECURSIVE CollectMatches(_, _, _, _, _, _, _, _)
CollectMatches(i, a1_pts, a2_pts, status, w, h, pts1, pts2) ==
    IF i > Len(status) THEN Ok(<<pts1, pts2>>)
    ELSE IF ~Tracked(status, i)
         THEN CollectMatches(i + 1, a1_pts, a2_pts, status, w, h, pts1, pts2)
    ELSE IF i > Len(a1_pts) \/ i > Len(a2_pts) THEN Err
    ELSE IF KeepPair(a1_pts[i], a2_pts[i], w, h)
         THEN CollectMatches(i + 1, a1_pts, a2_pts, status, w, h,
                             Append(pts1, a1_pts[i]), Append(pts2, a2_pts[i]))
    ELSE CollectMatches(i + 1, a1_pts, a2_pts, status, w, h, pts1, pts2)

\* Line 103: the early return.
Unusable(self, next) ==
    \/ IsEmpty(self.img)
    \/ IsEmpty(next.img)
    \/ self.size[1] <= 0
    \/ self.size[2] <= 0

\* An EstimatorItem: this variant holding an item, or another variant.
ItemOpenCV(item) == [variant |-> "ItemOpenCV", item |-> item]
OtherItem == [variant |-> "Other", item |-> DefaultItem]

\* lib.a1_img, lib.a2_img, lib.a1_pts: outcomes of building the two views
\* and the point matrix; lib.flow: outcome of calc_optical_flow_pyr_lk, Ok
\* carrying [next_pts, status].
get_matched_features(self, next, lib) ==
    LET w == self.size[1]
        h == self.size[2]
        a1_img == View(w, h, w, self.img)
        a2_img == View(w, h, w, next.item.img)
        returned(out, views) ==
            [status |-> "returned", out |-> out, views |-> views]
    IN  IF next.variant # "ItemOpenCV" THEN returned(None, <<>>)
        ELSE IF Unusable(self, next.item) THEN returned(None, <<>>)
        ELSE IF lib.a1_img.kind # "Ok" THEN returned(None, <<>>)
        ELSE IF lib.a2_img.kind # "Ok" THEN returned(None, <<a1_img>>)
        ELSE IF lib.a1_pts.kind # "Ok" THEN returned(None, <<a1_img, a2_img>>)
        ELSE IF lib.flow.kind = "Crash"
             THEN [status |-> "crashed", out |-> None,
                   views |-> <<a1_img, a2_img>>]
        ELSE IF lib.flow.kind # "Ok" THEN returned(None, <<a1_img, a2_img>>)
        ELSE LET result == CollectMatches(1, self.features,
                                          lib.flow.val.next_pts,
                                          lib.flow.val.status, w, h, <<>>, <<>>)
             IN  IF result.kind = "Ok"
                 THEN returned(Some(result.val), <<a1_img, a2_img>>)
                 ELSE returned(None, <<a1_img, a2_img>>)

\* The tracker may only kill the process when a view it reads leaves its
\* buffer; it answers with one location and one flag per starting point.
FlowLibOk(self, next, lib) ==
    /\ lib.flow.kind = "Crash" =>
          /\ next.variant = "ItemOpenCV"
          /\ \/ ~InsideBuffer(View(self.size[1], self.size[2], self.size[1],
                                   self.img))
             \/ ~InsideBuffer(View(self.size[1], self.size[2], self.size[1],
                                   next.item.img))
    /\ lib.flow.kind = "Ok" =>
          /\ Len(lib.flow.val.next_pts) = Len(self.features)
          /\ Len(lib.flow.val.status) = Len(self.features)

EstimatorItem(id) == IF id = OtherVariant THEN OtherItem ELSE ItemOpenCV(items[id])

\* What of the library's answers the call consumed.
FlowSeen(r, lib) ==
    [a1_img |-> lib.a1_img.kind, a2_img |-> lib.a2_img.kind,
     a1_pts |-> lib.a1_pts.kind,
     flow |-> IF Len(r.views) = 2 /\ lib.a1_pts.kind = "Ok" THEN lib.flow ELSE Err]

OpticalFlowTo(a, b, lib) ==
    /\ Alive
    /\ FlowLibOk(items[a], EstimatorItem(b), lib)
    /\ LET r == get_matched_features(items[a], EstimatorItem(b), lib)
       IN  res' = [Idle EXCEPT !.op = "optical_flow_to", !.self = a, !.next = b,
                      !.status = r.status, !.out = r.out, !.views = r.views,
                      !.lib = FlowSeen(r, lib)]
    /\ UNCHANGED <<items, cleaned>>

----------------------------------------------------------------------------
(* cv_to_rot2 *)

\* An opencv Mat: its shape, its type and its elements.
Mat(rows, cols, typ, data) ==
    [rows |-> rows, cols |-> cols, typ |-> typ, data |-> data]

ErrOf(e) == [kind |-> "Err", val |-> <<>>, err |-> e]

\* Mat::at_2d::<f64>: the element, or an error past the matrix's bounds.
InRange(m, r, c) == r <= m.rows /\ c <= m.cols

\* Line 178: the type test.
ValidType(m) == m.typ = CV_64FC1

\* Lines 181-185: the nine elements in row-major order.
RowMajor(m) == <<m.data[1][1], m.data[1][2], m.data[1][3],
                 m.data[2][1], m.data[2][2], m.data[2][3],
                 m.data[3][1], m.data[3][2], m.data[3][3]>>

cv_to_rot2(r1) ==
    IF ~ValidType(r1) THEN ErrOf("Invalid matrix type")
    ELSE IF \E r \in 1..3, c \in 1..3 : ~InRange(r1, r, c)
         THEN ErrOf("index out of range")
    ELSE [kind |-> "Ok", val |-> RowMajor(r1), err |-> ""]

CvToRot2(m) ==
    /\ Alive
    /\ res' = [Idle EXCEPT !.op = "cv_to_rot2", !.lib = m, !.out = cv_to_rot2(m)]
    /\ UNCHANGED <<items, cleaned>>

----------------------------------------------------------------------------
(* estimate_pose *)

\* crate::stabilization::undistort_points_for_optical_flow returns one
\* point per input point; only the count reaches this file's logic.
UndistortedCount(pts) == Len(pts)

\* The inlier floor one too low.
ModelFound_OffByOne(inliers) == ~(inliers < MIN_INLIERS - 1)

\* The inlier floor left out: any inlier will do.
ModelFound_NoFloor(inliers) == inliers > 0

\* Line 50: the inlier floor.
ModelFound(inliers) == ~(inliers < MIN_INLIERS)

\* lib as for get_matched_features, and lib.mats: outcome of building the
\* point matrices and the identity; lib.essential: of find_essential_mat;
\* lib.recover: of recover_pose_triangulated, Ok carrying [inliers, r1].
estimate_pose(self, next, lib) ==
    LET m == get_matched_features(self, next, lib)
        done(out, und, seen) ==
            [status |-> "returned", out |-> out, views |-> m.views,
             undistorted |-> und, seen |-> seen]
    IN  IF m.status = "crashed"
        THEN [status |-> "crashed", out |-> None, views |-> m.views,
              undistorted |-> FALSE, seen |-> "match"]
        ELSE IF m.out = None THEN done(None, FALSE, "match")
        ELSE IF lib.mats.kind # "Ok" THEN done(None, TRUE, "mats")
        ELSE IF lib.essential.kind # "Ok" THEN done(None, TRUE, "essential")
        ELSE IF lib.recover.kind # "Ok" THEN done(None, TRUE, "recover")
        ELSE IF ~ModelFound(lib.recover.val.inliers)
             THEN done(None, TRUE, "inliers")
        ELSE LET rot == cv_to_rot2(lib.recover.val.r1)
             IN  IF rot.kind = "Ok" THEN done(Some(rot.val), TRUE, "rot")
                 ELSE done(None, TRUE, "rot")

\* recover_pose_triangulated counts inliers among the points it was given
\* and writes a 3x3 rotation.
PoseLibOk(self, next, lib) ==
    /\ FlowLibOk(self, next, lib)
    /\ lib.recover.kind = "Ok" =>
          /\ lib.recover.val.r1.rows = 3
          /\ lib.recover.val.r1.cols = 3
          /\ LET m == get_matched_features(self, next, lib)
             IN  m.out # None =>
                   lib.recover.val.inliers \in 0..UndistortedCount(m.out[1][1])

\* What of the library's answers the call consumed.
PoseSeen(r, m, lib) ==
    [match |-> m.out,
     mats |-> IF r.seen = "match" THEN "-" ELSE lib.mats.kind,
     essential |-> IF r.seen \in {"match", "mats"} THEN "-"
                   ELSE lib.essential.kind,
     recover |-> IF r.seen \in {"match", "mats", "essential"} THEN Err
                 ELSE lib.recover]

EstimatePose(a, b, lib) ==
    /\ Alive
    /\ PoseLibOk(items[a], EstimatorItem(b), lib)
    /\ LET r == estimate_pose(items[a], EstimatorItem(b), lib)
           m == get_matched_features(items[a], EstimatorItem(b), lib)
       IN  res' = [Idle EXCEPT !.op = "estimate_pose", !.self = a, !.next = b,
                      !.status = r.status, !.out = r.out, !.views = r.views,
                      !.undistorted = r.undistorted,
                      !.lib = PoseSeen(r, m, lib)]
    /\ UNCHANGED <<items, cleaned>>

----------------------------------------------------------------------------
(* Inputs *)

Repeat(x, n) == [i \in 1..n |-> x]

RECURSIVE SeqsOfLen(_, _)
SeqsOfLen(S, n) ==
    IF n = 0 THEN {<<>>}
    ELSE {Append(q, x) : q \in SeqsOfLen(S, n - 1), x \in S}

SeqsUpTo(S, n) == UNION {SeqsOfLen(S, k) : k \in 0..n}

\* Image buffers: none, one pixel, MaxImg x MaxImg.
Images == {Image(d, d) : d \in {0, 1, MaxImg}}

\* width / height arguments: 0, 1, MaxSize and u32::MAX (-1 as i32).
U32Args == {U32(0, 0), U32(0, 1), U32(0, MaxSize), U32(1, I32_MAX)}

\* The frames of the life-cycle runs: an image that holds pixels, and the
\* width and height it is announced with (square, tall, zero, wrapped).
LifeImages == Images \ {EmptyImage}

LifeSizes ==
    {<<U32(0, MaxSize), U32(0, MaxSize)>>, <<U32(0, 1), U32(0, MaxSize)>>,
     <<U32(0, 0), U32(0, 1)>>, <<U32(0, 1), U32(1, I32_MAX)>>}

Origin == <<0, 0>>

\* Every library step succeeding, the tracker answering `flow`.
FlowLib(flow) ==
    [a1_img |-> Ok(<<>>), a2_img |-> Ok(<<>>), a1_pts |-> Ok(<<>>),
     flow |-> flow, mats |-> Ok(<<>>), essential |-> Ok(<<>>), recover |-> Err]

\* The runs in which one of the steps before the tracker fails.
EarlyFailures ==
    {[FlowLib(Err) EXCEPT ![f] = Err] : f \in {"a1_img", "a2_img", "a1_pts"}}

\* The tracker finds every point where it was (no motion).
StillFlow(features) ==
    Ok([next_pts |-> features, status |-> Repeat(1, Len(features))])

\* The frame's corners in the life-cycle runs: MIN_INLIERS at the origin.
FewCorners == {Repeat(Origin, MIN_INLIERS)}

\* The view cannot be built, or it can and the detector answers.
DetectLibs(corners) ==
    {[inp |-> Err, detect |-> Err]} \cup
    {[inp |-> Ok(<<>>), detect |-> d] :
        d \in {Err, Crash} \cup {Ok(c) : c \in corners}}

PoseLib(flow, recover) == [FlowLib(flow) EXCEPT !.recover = recover]

Recovered(inliers, r1) == Ok([inliers |-> inliers, r1 |-> r1])

\* A rows x cols matrix whose element (r, c) is base + 10 r + c.
NumberedMat(rows, cols, typ, base) ==
    Mat(rows, cols, typ,
        [r \in 1..rows |-> [c \in 1..cols |-> base + 10 * r + c]])

\* Element types: 8-bit, 32-bit float, 64-bit float, 64-bit float 2-channel.
MatTypes == {CV_8UC1, 5, CV_64FC1, 14}

----------------------------------------------------------------------------
(* Life cycle of two items: construction, queries, cleanup *)

Init ==
    /\ items = [s \in ItemIds |-> DefaultItem]
    /\ cleaned = [s \in ItemIds |-> FALSE]
    /\ res = Idle

Next ==
    \/ \E s \in ItemIds, img \in LifeImages, size \in LifeSizes,
          lib \in DetectLibs(FewCorners) :
          DetectFeatures(s, img, size[1], size[2], lib)
    \/ \E s \in ItemIds : GetFeatures(s)
    \/ \E s \in ItemIds : Cleanup(s)
    \/ \E a \in ItemIds, b \in ItemIds \cup {OtherVariant} :
          \E flow \in {Err, Crash, StillFlow(items[a].features)} :
             OpticalFlowTo(a, b, FlowLib(flow))
    \/ \E a \in ItemIds, b \in ItemIds \cup {OtherVariant} :
          \E flow \in {Crash, StillFlow(items[a].features)},
             n \in {MIN_INLIERS - 1, MIN_INLIERS} :
             EstimatePose(a, b, PoseLib(flow, Recovered(
                 Min(n, Len(items[a].features)),
                 NumberedMat(3, 3, CV_64FC1, 0))))

Spec == Init /\ [][Next]_vars

----------------------------------------------------------------------------
(* Matching: get_matched_features on every small input *)

Coord == -1..MaxCoord

\* Starting points: inside, left of the frame, on or below its lower edge.
SourcePoints == {Origin, <<-1, 0>>, <<0, 1>>}

\* Widths past 2^24, where `w as f32` is no longer w: the first rounds
\* down to 2^24, the second up to 2^24 + 4.
WideWidths == {F32_EXACT + 1, F32_EXACT + 3}

\* The f32 values around the right edge of a wide frame.
WideCoords == {F32_EXACT, F32_EXACT + 2, F32_EXACT + 4}

\* Tracked locations: along either axis, or nowhere (NaN); in a wide frame,
\* at the origin and around the right edge.
TrackedPoints(w) ==
    IF w \in WideWidths
    THEN {Origin} \cup {<<x, 0>> : x \in WideCoords}
    ELSE {<<x, 0>> : x \in Coord} \cup {<<0, y>> : y \in Coord}
             \cup {<<NaN, NaN>>}

MatchSizes ==
    {<<w, h>> : w \in 1..MaxSize, h \in 1..MaxSize}
        \cup {<<w, 1>> : w \in WideWidths}

\* A frame of exactly the item's size.
Frame(size) == Image(size[1], size[2])

InitMatch ==
    /\ \E features \in SeqsUpTo(SourcePoints, MaxLen), size \in MatchSizes :
          items = [s \in ItemIds |->
                     [features |-> IF s = "a" THEN features ELSE <<>>,
                      img |-> Frame(size), size |-> size]]
    /\ cleaned = [s \in ItemIds |-> FALSE]
    /\ res = Idle

TrackerAnswers(n, w) ==
    {Ok([next_pts |-> p, status |-> st]) :
        p \in SeqsOfLen(TrackedPoints(w), n), st \in SeqsOfLen({0, 1}, n)}

\* One call on the inputs drawn.
NextMatch ==
    \/ /\ Fresh
       /\ \E flow \in {Err} \cup TrackerAnswers(Len(items["a"].features),
                                                 items["a"].size[1]) :
             OpticalFlowTo("a", "b", FlowLib(flow))
    \/ /\ Fresh
       /\ \E lib \in EarlyFailures : OpticalFlowTo("a", "b", lib)

SpecMatch == InitMatch /\ [][NextMatch]_vars

----------------------------------------------------------------------------
(* Pose: estimate_pose on feature lists around the inlier floor, and
   cv_to_rot2 on matrices of every small shape and type *)

InitPose ==
    /\ \E n \in 0..MaxPoints :
          items = [s \in ItemIds |->
                     [features |-> IF s = "a" THEN Repeat(Origin, n) ELSE <<>>,
                      img |-> Image(1, 1), size |-> <<1, 1>>]]
    /\ cleaned = [s \in ItemIds |-> FALSE]
    /\ res = Idle

\* The tracker finds the first k points where they were and loses the rest.
PartFlow(features, k) ==
    Ok([next_pts |-> features,
        status |-> [i \in 1..Len(features) |-> IF i <= k THEN 1 ELSE 0]])

\* One call on the inputs drawn.
NextPose ==
    \/ /\ Fresh
       /\ \E k \in 0..Len(items["a"].features), inliers \in 0..MaxPoints,
             typ \in MatTypes :
             EstimatePose("a", "b",
                 PoseLib(PartFlow(items["a"].features, k),
                         Recovered(inliers, NumberedMat(3, 3, typ, 0))))
    \/ /\ Fresh
       /\ \E k \in 0..Len(items["a"].features),
             f \in {"flow", "mats", "essential", "recover"} :
             EstimatePose("a", "b",
                 [PoseLib(PartFlow(items["a"].features, k),
                          Recovered(k, NumberedMat(3, 3, CV_64FC1, 0)))
                    EXCEPT ![f] = Err])
    \/ /\ Fresh
       /\ \E rows \in 0..MaxDim, cols \in 0..MaxDim, typ \in MatTypes,
             base \in {0, 100} :
             CvToRot2(NumberedMat(rows, cols, typ, base))

SpecPose == InitPose /\ [][NextPose]_vars

----------------------------------------------------------------------------
(* Detection: detect_features on frames of up to MaxCandidates corners *)

\* n corners, each with its own position, strongest first.
Corners(n) == [i \in 1..n |-> <<i - 1, 0>>]

\* One frame detected, and its features read back.
NextDetect ==
    \/ /\ Fresh
       /\ \E img \in Images, width \in U32Args, height \in U32Args,
             lib \in DetectLibs({Corners(n) : n \in 0..MaxCandidates}) :
             DetectFeatures("a", img, width, height, lib)
    \/ /\ res.op = "detect_features"
       /\ GetFeatures("a")

SpecDetect == Init /\ [][NextDetect]_vars

----------------------------------------------------------------------------
(* Properties *)

IsFlow == res.op = "optical_flow_to"
IsPose == res.op = "estimate_pose"

\* A point that is a real position inside [0, w) x [0, h).
InFrame(pt, w, h) ==
    /\ X(pt) # NaN /\ Y(pt) # NaN
    /\ 0 <= X(pt) /\ X(pt) < w
    /\ 0 <= Y(pt) /\ Y(pt) < h

\* The k-th smallest member of a set of indices.
Nth(K, k) == CHOOSE i \in K : Cardinality({j \in K : j < i}) = k - 1

\* C1: every pair optical_flow_to returns lies inside [0, width) x
\* [0, height) of the item the call was made on, source and tracked point
\* alike, whatever the tracker answered.
C1_PairsInsideFrame ==
    (IsFlow /\ res.out # None) =>
        LET points_a == res.out[1][1]
            points_b == res.out[1][2]
            size == items[res.self].size
        IN  /\ \A i \in 1..Len(points_a) : InFrame(points_a[i], size[1], size[2])
            /\ \A i \in 1..Len(points_b) : InFrame(points_b[i], size[1], size[2])

\* C1 witness: two points tracked, one pair returned, the other tracked
\* out of the frame or lost.
C1_Witness ==
    /\ IsFlow /\ res.out # None
    /\ Len(items[res.self].features) = 2
    /\ Len(res.out[1][1]) = 1
    /\ \E i \in 1..2 :
          /\ res.lib.flow.val.status[i] = 1
          /\ ~InFrame(res.lib.flow.val.next_pts[i],
                      items[res.self].size[1], items[res.self].size[2])

\* A point that is a real position inside the frame as the code measures
\* it: below `w as f32` and `h as f32`.
InFrameF32(pt, w, h) ==
    /\ F32Ge(X(pt), 0) /\ F32Lt(X(pt), AsF32(w))
    /\ F32Ge(Y(pt), 0) /\ F32Lt(Y(pt), AsF32(h))

\* The two sequences returned have equal length and hold, index by index
\* and in ascending order of i, exactly the pairs (features[i], tracked[i])
\* whose flag is set and whose two points are Inside the frame; when the
\* tracker answers, the result is Some even if no pair is left.
ExactlyThePairs(Inside(_, _, _)) ==
    IsFlow =>
        LET self == items[res.self]
            flow == res.lib.flow
            kept == {i \in 1..Len(self.features) :
                       /\ flow.val.status[i] = 1
                       /\ Inside(self.features[i], self.size[1], self.size[2])
                       /\ Inside(flow.val.next_pts[i], self.size[1],
                                 self.size[2])}
        IN  /\ flow.kind = "Ok" => res.out # None
            /\ res.out # None =>
                 /\ flow.kind = "Ok"
                 /\ Len(res.out[1][1]) = Cardinality(kept)
                 /\ Len(res.out[1][2]) = Cardinality(kept)
                 /\ \A k \in 1..Cardinality(kept) :
                       /\ res.out[1][1][k] = self.features[Nth(kept, k)]
                       /\ res.out[1][2][k] = flow.val.next_pts[Nth(kept, k)]

\* C2: the two sequences returned have equal length and hold, index by
\* index and in ascending order of i, exactly the pairs (features[i],
\* tracked[i]) whose flag is set and whose two points are inside [0, width)
\* x [0, height); when the tracker answers, the result is Some even if no
\* pair is left. Fails for a width that is not an f32: a pair tracked to
\* the last column of a frame 2^24 + 1 wide is dropped.
C2_ExactlyTheKeptPairs == ExactlyThePairs(InFrame)

\* What holds of C2 in every frame: the pairs returned are exactly the
\* flagged pairs with 0 <= x < width as f32 and 0 <= y < height as f32 for
\* both points (the frame itself for sizes up to 2^24), in ascending order
\* of i; when the tracker answers, the result is Some even if no pair is
\* left.
ExactlyThePairsKeptAsF32 == ExactlyThePairs(InFrameF32)

\* Of two points found, the first is tracked out of the frame
\* and dropped, the second is returned alone.
KeptSecondOfTwo ==
    /\ IsFlow /\ res.out # None
    /\ Len(items[res.self].features) = 2
    /\ res.lib.flow.val.status = <<1, 1>>
    /\ res.out[1] = <<<<items[res.self].features[2]>>,
                      <<res.lib.flow.val.next_pts[2]>>>>
    /\ res.lib.flow.val.next_pts[1] # res.lib.flow.val.next_pts[2]

\* In a wide frame: a point tracked to the last column, inside
\* the frame, is dropped all the same.
DroppedInLastColumn ==
    /\ IsFlow /\ res.out # None
    /\ items[res.self].size[1] \in WideWidths
    /\ \E i \in 1..Len(items[res.self].features) :
          /\ res.lib.flow.val.status[i] = 1
          /\ InFrame(items[res.self].features[i], items[res.self].size[1],
                     items[res.self].size[2])
          /\ InFrame(res.lib.flow.val.next_pts[i], items[res.self].size[1],
                     items[res.self].size[2])
          /\ Len(res.out[1][1]) = 0

\* Both items are of this variant, hold a non-empty image and have a
\* positive width and height.
BothUsable(self, next) ==
    /\ next # OtherVariant
    /\ ~IsEmpty(items[self].img) /\ ~IsEmpty(items[next].img)
    /\ items[self].size[1] > 0 /\ items[self].size[2] > 0
    /\ items[next].size[1] > 0 /\ items[next].size[2] > 0

\* C3: optical_flow_to returns None unless the other item is of the same
\* variant and both items have a non-empty image and a positive size
\* (stated for the calls whose views stay inside their buffers, on which
\* the library reads nothing it does not own).
C3_NoneUnlessBothUsable ==
    (/\ IsFlow /\ res.status = "returned"
     /\ \A i \in 1..Len(res.views) : InsideBuffer(res.views[i])
     /\ ~BothUsable(res.self, res.next))
        => res.out = None

\* C4: a call of optical_flow_to or estimate_pose that takes an item on
\* which cleanup() was called, as receiver or as next item, returns None,
\* does not end the process and does not reach the undistortion.
C4_NoneAfterCleanup ==
    ((IsFlow \/ IsPose) /\
     (cleaned[res.self] \/ (res.next \in ItemIds /\ cleaned[res.next])))
        => /\ res.status = "returned"
           /\ res.out = None
           /\ ~res.undistorted
           /\ res.views = <<>>

\* C4 witness: estimate_pose from a usable item with features to an item
\* that was cleaned up.
C4_Witness ==
    /\ IsPose
    /\ res.next \in ItemIds /\ cleaned[res.next] /\ ~cleaned[res.self]
    /\ ~IsEmpty(items[res.self].img)
    /\ items[res.self].size[1] > 0 /\ items[res.self].size[2] > 0
    /\ items[res.self].features # <<>>
    /\ res.out = None

\* C5: cleanup() leaves the item with an empty image and with the features
\* and size it had, leaves the other item alone, and changes nothing at
\* all when the item was cleaned up before; get_features() gives the same
\* sequence before and after.
C5_CleanupKeepsFeaturesAndSize ==
    [][\A s \in ItemIds :
         (res'.op = "cleanup" /\ res'.self = s) =>
            /\ items'[s].img = EmptyImage
            /\ items'[s].features = items[s].features
            /\ items'[s].size = items[s].size
            /\ get_features(items'[s]) = get_features(items[s])
            /\ \A t \in ItemIds \ {s} : items'[t] = items[t]
            /\ cleaned[s] => items' = items]_vars

\* C5 witness: cleanup() has run on an item that holds features and a
\* positive size.
C5_Witness ==
    /\ res.op = "cleanup"
    /\ items[res.self].features # <<>>
    /\ items[res.self].size[1] > 0 /\ items[res.self].size[2] > 0
    /\ IsEmpty(items[res.self].img)

\* C6: estimate_pose returns None whenever pose recovery reports fewer
\* than 20 inliers, and returns Some(rotation) only when the matching
\* gave pairs, both library steps succeeded, at least 20 inliers were
\* counted and the recovered matrix converted.
C6_InlierFloor ==
    IsPose =>
        LET lib == res.lib
        IN  /\ (lib.recover.kind = "Ok" /\ lib.recover.val.inliers < 20)
                  => res.out = None
            /\ res.out # None =>
                  /\ lib.match # None
                  /\ lib.mats = "Ok" /\ lib.essential = "Ok"
                  /\ lib.recover.kind = "Ok"
                  /\ lib.recover.val.inliers >= 20
                  /\ lib.recover.val.r1.typ = CV_64FC1
                  /\ \A r \in 1..3, c \in 1..3 :
                        res.out[1][3 * (r - 1) + c]
                            = lib.recover.val.r1.data[r][c]

\* C6 witness: 19 inliers among 21 pairs, a well-typed candidate matrix
\* recovered, and None returned.
C6_Witness ==
    /\ IsPose
    /\ res.lib.recover.kind = "Ok"
    /\ res.lib.recover.val.inliers = 19
    /\ res.lib.recover.val.r1.typ = CV_64FC1
    /\ res.lib.match # None /\ Len(res.lib.match[1][1]) = 21
    /\ res.out = None

\* C7: estimate_pose returns None for every pair of items between which
\* fewer than 8 pairs survive the matching, none at all included.
C7_FewerThanEightPairs ==
    (IsPose /\ res.lib.match # None /\ Len(res.lib.match[1][1]) < 8)
        => res.out = None

\* C7 witness: 7 pairs survive, every library step succeeds, all 7 are
\* inliers, the matrix is well typed, and None is returned.
C7_Witness ==
    /\ IsPose
    /\ res.lib.match # None /\ Len(res.lib.match[1][1]) = 7
    /\ res.lib.recover.kind = "Ok"
    /\ res.lib.recover.val.inliers = 7
    /\ res.lib.recover.val.r1.typ = CV_64FC1
    /\ res.out = None

\* C8: cv_to_rot2 fails for every matrix that is not 3x3 or not 64-bit
\* float single channel (any error counted as InvalidMatrixType), and for
\* a 3x3 64-bit single-channel matrix returns its elements in row-major
\* order.
C8_RejectsAllButThreeByThreeF64 ==
    res.op = "cv_to_rot2" =>
        LET m == res.lib
        IN  IF m.rows = 3 /\ m.cols = 3 /\ m.typ = CV_64FC1
            THEN /\ res.out.kind = "Ok"
                 /\ \A r \in 1..3, c \in 1..3 :
                       res.out.val[3 * (r - 1) + c] = m.data[r][c]
            ELSE res.out.kind = "Err"

\* The i32 i and the u32 u are the same number.
SameNumber(i, u) == i >= 0 /\ u = U32(0, i)

\* C9: detect_features never propagates a failure: every call returns an
\* item that retains the given image and has the given (width, height) as
\* its size; if building the view or the detection fails, the feature list
\* is empty; on success it holds the detector's points in detector order,
\* at most 200. Fails for a width or height of 2^31 or more, stored as a
\* negative size, and when the detector reads a view that leaves the
\* buffer and the process dies.
C9_DetectNeverFails ==
    res.op = "detect_features" =>
        LET item == items[res.self]
            corners == res.lib.detect.val
        IN  /\ res.status = "returned"
            /\ item.img = res.lib.img
            /\ SameNumber(item.size[1], res.lib.width)
            /\ SameNumber(item.size[2], res.lib.height)
            /\ (res.lib.inp # "Ok" \/ res.lib.detect.kind # "Ok")
                  => item.features = <<>>
            /\ (res.lib.inp = "Ok" /\ res.lib.detect.kind = "Ok") =>
                  /\ Len(item.features) <= 200
                  /\ Len(item.features) = Min(Len(corners), 200)
                  /\ \A i \in 1..Len(item.features) :
                        item.features[i] = corners[i]

\* What holds of C9: when the width and height are below 2^31 and the
\* library calls return, the item has the given image and size, no
\* features after a failure and the first 200 detector points after a
\* success.
DetectKeepsItemWhenLibraryReturns ==
    (/\ res.op = "detect_features"
     /\ res.lib.width.hi = 0 /\ res.lib.height.hi = 0
     /\ (res.lib.inp # "Ok" \/ res.lib.detect.kind \in {"Err", "Ok"})) =>
        LET item == items[res.self]
            corners == res.lib.detect.val
        IN  /\ res.status = "returned"
            /\ item.img = res.lib.img
            /\ SameNumber(item.size[1], res.lib.width)
            /\ SameNumber(item.size[2], res.lib.height)
            /\ (res.lib.inp # "Ok" \/ res.lib.detect.kind = "Err")
                  => item.features = <<>>
            /\ (res.lib.inp = "Ok" /\ res.lib.detect.kind = "Ok") =>
                  /\ Len(item.features) = Min(Len(corners), 200)
                  /\ \A i \in 1..Len(item.features) :
                        item.features[i] = corners[i]

\* A frame with more than 200 corners was detected, and 200 features kept.
KeptTwoHundred ==
    /\ res.op = "detect_features"
    /\ res.lib.inp = "Ok" /\ res.lib.detect.kind = "Ok"
    /\ Len(res.lib.detect.val) > 200
    /\ Len(items[res.self].features) = 200

\* C10: every raster view a call builds over an image buffer lies inside
\* that buffer.
C10_ViewsInsideBuffers ==
    \A i \in 1..Len(res.views) : InsideBuffer(res.views[i])

====
